---- MODULE Spec2Model ----
(***************************************************************************)
(* aioaws: the generic SigV4 GET client (aws.py), the SQS client with its  *)
(* batch delete (sqs.py) and the SNS publish operation (sns.py).           *)
(*                                                                         *)
(* Python strings are sequences of code points (0..127 here), so that the  *)
(* ordering of sorted() and the percent-encoding of url_encode are those   *)
(* of the program.  A dict is the sequence of its <<key, value>> items in  *)
(* insertion order, keys unique.  A Python value is a record tagged with   *)
(* its type.  SHA-256 and HMAC-SHA256 are injective constructors: a digest *)
(* is the tagged tuple of what was hashed.                                 *)
(***************************************************************************)
EXTENDS Integers, Sequences, FiniteSets, TLC

\* ------------------------------------------------------------- bounds
\* the longest receipt-handle list given to delete_messages
MaxN == 25
\* the most batch error entries AWS reports in one run
MaxErrs == 1

\* ------------------------------------------------- program constants
\* sqs.py:143 (end = start + 10) and sqs.py:171 (start += 10)
ChunkSize == 10
\* aws.py:137: the only status AWS.get takes for success
HTTP_OK == 200

\* ---------------------------------------------------- string literals
K_Action == <<65, 99, 116, 105, 111, 110>>   \* 'Action'
K_Version == <<86, 101, 114, 115, 105, 111, 110>>   \* 'Version'
K_ReceiptHandle == <<82, 101, 99, 101, 105, 112, 116, 72, 97, 110, 100, 108, 101>>   \* 'ReceiptHandle'
K_EntryPrefix == <<68, 101, 108, 101, 116, 101, 77, 101, 115, 115, 97, 103, 101, 66, 97, 116, 99, 104, 82, 101, 113, 117, 101, 115, 116, 69, 110, 116, 114, 121, 46>>   \* 'DeleteMessageBatchRequestEntry.'
K_IdSuffix == <<46, 73, 100>>   \* '.Id'
K_RhSuffix == <<46, 82, 101, 99, 101, 105, 112, 116, 72, 97, 110, 100, 108, 101>>   \* '.ReceiptHandle'
K_XAmzAlgorithm == <<88, 45, 65, 109, 122, 45, 65, 108, 103, 111, 114, 105, 116, 104, 109>>   \* 'X-Amz-Algorithm'
K_XAmzCredential == <<88, 45, 65, 109, 122, 45, 67, 114, 101, 100, 101, 110, 116, 105, 97, 108>>   \* 'X-Amz-Credential'
K_XAmzDate == <<88, 45, 65, 109, 122, 45, 68, 97, 116, 101>>   \* 'X-Amz-Date'
K_XAmzSignedHeaders == <<88, 45, 65, 109, 122, 45, 83, 105, 103, 110, 101, 100, 72, 101, 97, 100, 101, 114, 115>>   \* 'X-Amz-SignedHeaders'
K_XAmzSignature == <<88, 45, 65, 109, 122, 45, 83, 105, 103, 110, 97, 116, 117, 114, 101>>   \* 'X-Amz-Signature'
K_Message == <<77, 101, 115, 115, 97, 103, 101>>   \* 'Message'
K_Subject == <<83, 117, 98, 106, 101, 99, 116>>   \* 'Subject'
K_MessageStructure == <<77, 101, 115, 115, 97, 103, 101, 83, 116, 114, 117, 99, 116, 117, 114, 101>>   \* 'MessageStructure'
K_TopicArn == <<84, 111, 112, 105, 99, 65, 114, 110>>   \* 'TopicArn'
K_TargetArn == <<84, 97, 114, 103, 101, 116, 65, 114, 110>>   \* 'TargetArn'
K_AttrPrefix == <<77, 101, 115, 115, 97, 103, 101, 65, 116, 116, 114, 105, 98, 117, 116, 101, 115, 46, 101, 110, 116, 114, 121, 46>>   \* 'MessageAttributes.entry.'
K_NameSuffix == <<46, 78, 97, 109, 101>>   \* '.Name'
K_DataTypeSuffix == <<46, 86, 97, 108, 117, 101, 46, 68, 97, 116, 97, 84, 121, 112, 101>>   \* '.Value.DataType'
K_StringValueSuffix == <<46, 86, 97, 108, 117, 101, 46, 83, 116, 114, 105, 110, 103, 86, 97, 108, 117, 101>>   \* '.Value.StringValue'
S_DeleteMessageBatch == <<68, 101, 108, 101, 116, 101, 77, 101, 115, 115, 97, 103, 101, 66, 97, 116, 99, 104>>   \* 'DeleteMessageBatch'
S_DeleteMessage == <<68, 101, 108, 101, 116, 101, 77, 101, 115, 115, 97, 103, 101>>   \* 'DeleteMessage'
S_Publish == <<80, 117, 98, 108, 105, 115, 104>>   \* 'Publish'
S_alg == <<65, 87, 83, 52, 45, 72, 77, 65, 67, 45, 83, 72, 65, 50, 53, 54>>   \* 'AWS4-HMAC-SHA256'
S_host == <<104, 111, 115, 116>>   \* 'host'
S_aws4_request == <<97, 119, 115, 52, 95, 114, 101, 113, 117, 101, 115, 116>>   \* 'aws4_request'
S_AWS4 == <<65, 87, 83, 52>>   \* 'AWS4'
S_json == <<106, 115, 111, 110>>   \* 'json'
SQS_VERSION == <<50, 48, 49, 50, 45, 49, 49, 45, 48, 53>>   \* '2012-11-05'
SNS_VERSION == <<50, 48, 49, 48, 45, 48, 51, 45, 51, 49>>   \* '2010-03-31'
SQS_SVC_NAME == <<115, 113, 115>>   \* 'sqs'
SNS_SVC_NAME == <<115, 110, 115>>   \* 'sns'
Slash == <<47>>   \* '/'
K_DataType == <<68, 97, 116, 97, 84, 121, 112, 101>>   \* 'DataType'
K_StringValue == <<83, 116, 114, 105, 110, 103, 86, 97, 108, 117, 101>>   \* 'StringValue'
K_BinaryValue == <<66, 105, 110, 97, 114, 121, 86, 97, 108, 117, 101>>   \* 'BinaryValue'
K_BinaryValueSuffix == <<46, 86, 97, 108, 117, 101, 46, 66, 105, 110, 97, 114, 121, 86, 97, 108, 117, 101>>   \* '.Value.BinaryValue'

\* ------------------------------------------------------ Python values
None == [t |-> "none"]
PyInt(n) == [t |-> "int", v |-> n]
PyS(s) == [t |-> "str", v |-> s]

RECURSIVE IntToStr(_)
\* str(n) / '%d' % n for n >= 0: the decimal digits, most significant first
IntToStr(n) == IF n < 10 THEN <<48 + n>> ELSE IntToStr(n \div 10) \o <<48 + (n % 10)>>

IsDigits(s) == Len(s) > 0 /\ \A i \in 1..Len(s) : s[i] \in 48..57

RECURSIVE StrToInt(_)
\* int(s) for a string of decimal digits
StrToInt(s) ==
    IF Len(s) = 1 THEN s[1] - 48
    ELSE 10 * StrToInt(SubSeq(s, 1, Len(s) - 1)) + (s[Len(s)] - 48)

\* str(v) as AWS.get applies it to every parameter value
PyStr(v) == IF v.t = "int" THEN IntToStr(v.v) ELSE v.v

\* the truth value Python gives a value in `if v:`
Truthy(v) ==
    CASE v.t = "none" -> FALSE
      [] v.t = "int" -> v.v # 0
      [] v.t = "str" -> Len(v.v) > 0

\* ------------------------------------------------------------- dicts
DictKeys(d) == {d[i][1] : i \in 1..Len(d)}

DictHas(d, k) == \E i \in 1..Len(d) : d[i][1] = k

DictGet(d, k) == d[CHOOSE i \in 1..Len(d) : d[i][1] = k][2]

\* d[k] = v: an existing key keeps its place, a new key goes last
DictSet(d, k, v) ==
    IF DictHas(d, k)
    THEN [i \in 1..Len(d) |-> IF d[i][1] = k THEN <<k, v>> ELSE d[i]]
    ELSE Append(d, <<k, v>>)

RECURSIVE DictUpdate(_, _)
\* d.update(other): the items of other, in its order
DictUpdate(d, other) ==
    IF other = <<>> THEN d
    ELSE DictUpdate(DictSet(d, Head(other)[1], Head(other)[2]), Tail(other))

\* ------------------------------------------------------- aws.url_encode
Unreserved(b) ==
    \/ b \in 48..57 \/ b \in 65..90 \/ b \in 97..122
    \/ b \in {45, 46, 95, 126}

HexDigit(n) == IF n < 10 THEN 48 + n ELSE 55 + n

\* one byte as quote_from_bytes(..., safe='') writes it
QuoteByte(b) ==
    IF Unreserved(b) THEN <<b>> ELSE <<37, HexDigit(b \div 16), HexDigit(b % 16)>>

RECURSIVE url_encode(_)
url_encode(v) == IF v = <<>> THEN <<>> ELSE QuoteByte(Head(v)) \o url_encode(Tail(v))

\* ---------------------------------------------- sorted(params, key=p[0])
RECURSIVE FirstDiff(_, _, _, _)
\* the first position in lo..hi where a and b differ, given that there is one
FirstDiff(a, b, lo, hi) ==
    IF lo = hi THEN lo
    ELSE LET mid == (lo + hi) \div 2
         IN  IF SubSeq(a, lo, mid) = SubSeq(b, lo, mid)
             THEN FirstDiff(a, b, mid + 1, hi)
             ELSE FirstDiff(a, b, lo, mid)

\* a < b for Python strings: code point by code point, a proper prefix first
StrLess(a, b) ==
    LET m == IF Len(a) < Len(b) THEN Len(a) ELSE Len(b)
    IN  IF SubSeq(a, 1, m) = SubSeq(b, 1, m) THEN Len(a) < Len(b)
        ELSE LET d == FirstDiff(a, b, 1, m) IN a[d] < b[d]

RECURSIVE InsertPos(_, _, _)
\* how many items of the sorted list s[1..i] stay before an item of key k
InsertPos(s, k, i) ==
    IF i = 0 \/ ~StrLess(k, s[i][1]) THEN i ELSE InsertPos(s, k, i - 1)

InsertSorted(s, x) ==
    LET pos == InsertPos(s, x[1], Len(s))
    IN  SubSeq(s, 1, pos) \o <<x>> \o SubSeq(s, pos + 1, Len(s))

RECURSIVE SortByKey(_)
\* sorted(items, key=lambda p: p[0]): ascending keys, equal keys keep their order
SortByKey(items) ==
    IF items = <<>> THEN <<>>
    ELSE InsertSorted(SortByKey(SubSeq(items, 1, Len(items) - 1)), items[Len(items)])

\* ---------------------------------------------------- hashing, signing
Sha256Hex(data) == <<"sha256", data>>

\* aws.sign: HMAC-SHA256 of msg under key
sign(key, msg) == <<"hmac", key, msg>>

\* AWS.__get_signature_key
get_signature_key(aws, key, date) ==
    LET kdate == sign(S_AWS4 \o key, date)
        kregion == sign(kdate, aws.region)
        kservice == sign(kregion, aws.service)
    IN  sign(kservice, S_aws4_request)

\* ------------------------------------------------------------ AWS.get
Pad2(n) == <<48 + (n \div 10), 48 + (n % 10)>>

\* timestamp.strftime('%Y%m%d')
FormatDate(ts) == IntToStr(ts.Y) \o Pad2(ts.m) \o Pad2(ts.d)

\* timestamp.strftime('%Y%m%dT%H%M%SZ')
FormatAmzDate(ts) == FormatDate(ts) \o <<84>> \o Pad2(ts.H) \o Pad2(ts.M) \o Pad2(ts.S) \o <<90>>

\* lines 106-109: the four SigV4 parameters, written into the caller's dict
AddSigV4Params(params, alg, credential, amz_date, signed_headers) ==
    DictSet(DictSet(DictSet(DictSet(params,
        K_XAmzAlgorithm, PyS(alg)),
        K_XAmzCredential, PyS(credential)),
        K_XAmzDate, PyS(amz_date)),
        K_XAmzSignedHeaders, PyS(signed_headers))

\* line 111: every value through str() and url_encode, keys as they are
EncodeItems(params) ==
    [i \in 1..Len(params) |-> <<params[i][1], url_encode(PyStr(params[i][2]))>>]

\* a variant: the items left in the dict's insertion order
CanonicalQueryUnsorted(params) == EncodeItems(params)

\* lines 111-115: the 'k=v' items of canonical_query, in the order '&' joins them
CanonicalQuery(params) == SortByKey(EncodeItems(params))

\* AWS.get up to the point where the request goes out (lines 89-133):
\* the caller's dict as get leaves it, and the request URL (the base URL and
\* the items of its query string)
get(aws, url, params, ts) ==
    LET amz_date == FormatAmzDate(ts)
        date == FormatDate(ts)
        canonical_uri == url.path
        canonical_headers == S_host \o <<58>> \o url.netloc \o <<10>>
        signed_headers == S_host
        scope == date \o Slash \o aws.region \o Slash \o aws.service \o Slash \o S_aws4_request
        credential == aws.access_key \o Slash \o scope
        params1 == AddSigV4Params(params, S_alg, credential, amz_date, signed_headers)
        canonical_query == CanonicalQuery(params1)
        payload_hash == Sha256Hex(<<>>)
        canonical_request == <<"GET", canonical_uri, canonical_query,
                               canonical_headers, signed_headers, payload_hash>>
        sdata == <<S_alg, amz_date, scope, Sha256Hex(canonical_request)>>
        key == get_signature_key(aws, aws.secret_key, date)
        sig == sign(key, sdata)
    IN  [params |-> params1,
         request |-> [url |-> url,
                      query |-> Append(canonical_query, <<K_XAmzSignature, sig>>)]]

AWSException(status, reason) == [t |-> "AWSException", status |-> status, reason |-> reason]

\* a variant: every 2xx status taken for success
GetRaisesNon2xx(status) == status \notin 200..299

\* line 137: the response is an error unless its status is 200
GetRaises(status) == status # HTTP_OK

\* ----------------------------------------------------------- the state
Procs == {"a", "b"}

VARIABLES
    client,    \* the client object: its region, account id, url and AWS client
    heap,      \* the dicts alive: "common" is the client's __common_params,
               \* heap[p] the params dict of call p
    op,        \* op[p]: the operation call p runs, "none" when there is no call
    args,      \* args[p]: its arguments
    pc,        \* "ready", "await" (suspended in AWS.get), "done", "failed"
    start,     \* delete_messages: the local start
    result,    \* delete_messages: the local result list
    issued,    \* issued[p]: what AWS reads in each request of call p, in order
    net,       \* the requests on the wire, issued and not yet answered
    resps,     \* resps[p]: what the transport gave back to call p, in order
    ret,       \* ret[p]: what the call returned or raised
    deleted    \* the receipt handles AWS has deleted

vars == <<client, heap, op, args, pc, start, result, issued, net, resps, ret, deleted>>

\* ------------------------------------------------------------- inputs
S_region == <<101, 117>>          \* 'eu'
S_account_id == <<52, 50>>        \* '42'
S_access_key == <<65, 75>>        \* 'AK'
S_secret_key == <<83, 75>>        \* 'SK'
S_queue == <<113>>                \* 'q'
S_amazonaws == <<46, 97, 109, 97, 122, 111, 110, 97, 119, 115, 46, 99, 111, 109>>  \* '.amazonaws.com'

Timestamps ==
    {[Y |-> 2024, m |-> 1, d |-> 9, H |-> 8, M |-> 5, S |-> 0],
     [Y |-> 2024, m |-> 12, d |-> 31, H |-> 23, M |-> 59, S |-> 59]}

\* receipt handle k (from 1) of a list: 'h/' and the digits of k % 7, so that
\* a list of more than seven handles holds some handle twice
Handle(k) == <<104, 47>> \o IntToStr(k % 7)

HandleList(n) == [k \in 1..n |-> Handle(k)]

\* what the transport can answer: a status line, or an exception of its own
Statuses == {<<200, "OK">>, <<204, "No Content">>, <<500, "Internal Server Error">>}

\* the Code and Message texts of the batch error entry AWS writes for entry
\* number eid of a request: two kinds of error, and a message naming the entry
ErrKind(eid) ==
    IF eid % 2 = 1 THEN [Code |-> <<52, 48, 48>>, Message |-> <<"bad handle", eid>>]
    ELSE [Code |-> <<52, 48, 51>>, Message |-> <<"denied", eid>>]

\* AWS(region, service, access_key, secret_key)
AWS(region, service, access_key, secret_key) ==
    [region |-> region, service |-> service,
     access_key |-> access_key, secret_key |-> secret_key]

\* SQS.__init__: the client object and its __common_params
SQS(region, account_id, access_key, secret_key) ==
    [client |-> [kind |-> "sqs", region |-> region, account_id |-> account_id,
                 aws |-> AWS(region, SQS_SVC_NAME, access_key, secret_key)],
     common_params |-> << <<K_Version, PyS(SQS_VERSION)>> >>]

\* SQS.__get_queue_url: 'https://sqs.<region>.amazonaws.com/<account>/<queue>',
\* kept as the parts urlparse gives back
get_queue_url(c, queue) ==
    [scheme |-> "https",
     netloc |-> SQS_SVC_NAME \o <<46>> \o c.region \o S_amazonaws,
     path |-> Slash \o c.account_id \o Slash \o queue]

\* ------------------------------------------------ SQS.delete_messages
\* 'DeleteMessageBatchRequestEntry.%d.Id' % eid
PidKey(eid) == K_EntryPrefix \o IntToStr(eid) \o K_IdSuffix
\* 'DeleteMessageBatchRequestEntry.%d.ReceiptHandle' % eid
PrhKey(eid) == K_EntryPrefix \o IntToStr(eid) \o K_RhSuffix

\* lines 143-145
ChunkEnd(st, n) == IF st + ChunkSize > n THEN n ELSE st + ChunkSize

\* a variant: the Id counted within the chunk
EntryIdLocal(st, i) == i

\* line 156: the Id sent for the entry at position i (from 0) of the chunk at st
EntryId(st, i) == st + i

\* a variant: the next chunk starts on the last handle of this one
NextStartOverlap(st) == st + ChunkSize - 1

\* line 171
NextStart(st) == st + ChunkSize

RECURSIVE AddEntries(_, _, _, _, _)
\* lines 152-157, from position i on
AddEntries(params, handles, st, end, i) ==
    IF i >= end - st THEN params
    ELSE AddEntries(
            DictSet(DictSet(params, PidKey(i + 1), PyInt(EntryId(st, i))),
                    PrhKey(i + 1), PyS(handles[st + i + 1])),
            handles, st, end, i + 1)

\* lines 148-157: the parameters of the request for the chunk at st
DMParams(common, handles, st, end) ==
    AddEntries(DictUpdate(<< <<K_Action, PyS(S_DeleteMessageBatch)>> >>, common),
               handles, st, end, 0)

\* a variant: `params` names the client's dict
ParamsRefShared(p) == "common"

\* the dict a call's `params` names: one of its own (`params = {...}`)
ParamsRef(p) == p

\* a variant: the error entries are dropped
WriteErrorsNone(res, errors) == [raised |-> FALSE, result |-> res]

\* a variant: the first error entry is raised
WriteErrorsRaise(res, errors) ==
    IF errors = <<>> THEN [raised |-> FALSE, result |-> res]
    ELSE [raised |-> TRUE,
          error |-> AWSException(StrToInt(errors[1].Code), errors[1].Message)]

\* a variant: the Id taken for a position counted from 1
WriteErrorsFromOne(res, errors) ==
    [raised |-> FALSE,
     result |-> [k \in 1..Len(res) |->
        IF \E j \in 1..Len(errors) : StrToInt(errors[j].Id) = k
        THEN LET j == CHOOSE j \in 1..Len(errors) : StrToInt(errors[j].Id) = k
             IN  AWSException(StrToInt(errors[j].Code), errors[j].Message)
        ELSE res[k]]]

RECURSIVE WriteErrors(_, _)
\* lines 165-169: each error entry into the slot its Id names; an Id or Code
\* that is no number, or an index outside the list, ends the call
WriteErrors(res, errors) ==
    IF errors = <<>> THEN [raised |-> FALSE, result |-> res]
    ELSE LET err == Head(errors)
         IN  IF ~IsDigits(err.Id) \/ ~IsDigits(err.Code)
             THEN [raised |-> TRUE, error |-> [t |-> "ValueError"]]
             ELSE IF StrToInt(err.Id) >= Len(res)
             THEN [raised |-> TRUE, error |-> [t |-> "IndexError"]]
             ELSE WriteErrors(
                    [res EXCEPT ![StrToInt(err.Id) + 1] =
                        AWSException(StrToInt(err.Code), err.Message)],
                    Tail(errors))

\* a variant: the exception is dropped and the loop goes on
OnGetErrorSwallow(st, err) == [pc |-> "loop", start |-> NextStart(st)]

\* line 159: an exception of AWS.get is not caught, it ends the call
OnGetError(st, err) == [pc |-> "failed", start |-> st]

\* --------------------------------------------- the transport and AWS
HexValue(b) == IF b \in 48..57 THEN b - 48 ELSE b - 55

RECURSIVE UrlDecode(_)
\* the value AWS reads from a percent-encoded query item
UrlDecode(s) ==
    IF s = <<>> THEN <<>>
    ELSE IF s[1] = 37
         THEN <<16 * HexValue(s[2]) + HexValue(s[3])>> \o UrlDecode(SubSeq(s, 4, Len(s)))
         ELSE <<s[1]>> \o UrlDecode(Tail(s))

QueryKeys(req) == {req.query[i][1] : i \in 1..Len(req.query)}

QueryGet(req, k) == DictGet(req.query, k)

\* k is 'DeleteMessageBatchRequestEntry.<digits>.Id'
IsPidKey(k) ==
    LET n == Len(K_EntryPrefix)
    IN  /\ Len(k) > n + Len(K_IdSuffix)
        /\ SubSeq(k, 1, n) = K_EntryPrefix
        /\ SubSeq(k, Len(k) - Len(K_IdSuffix) + 1, Len(k)) = K_IdSuffix
        /\ IsDigits(SubSeq(k, n + 1, Len(k) - Len(K_IdSuffix)))

\* the entry numbers of a DeleteMessageBatch request
EntryIds(req) ==
    {StrToInt(SubSeq(req.query[i][1], Len(K_EntryPrefix) + 1,
                     Len(req.query[i][1]) - Len(K_IdSuffix))) :
        i \in {i \in 1..Len(req.query) : IsPidKey(req.query[i][1])}}

RECURSIVE SetToSeq(_)
\* a set of numbers as the ascending sequence
SetToSeq(S) ==
    IF S = {} THEN <<>>
    ELSE LET x == CHOOSE x \in S : \A y \in S : x <= y
         IN  <<x>> \o SetToSeq(S \ {x})

\* the BatchResultErrorEntry elements AWS answers with when the entries E of
\* the request fail: each echoes the Id the request gave that entry
BatchErrors(req, E) ==
    LET es == SetToSeq(E)
    IN  [j \in 1..Len(es) |->
            [eid |-> es[j],
             Id |-> UrlDecode(QueryGet(req, PidKey(es[j]))),
             Code |-> ErrKind(es[j]).Code,
             Message |-> ErrKind(es[j]).Message]]

\* the error entries AWS has reported to call p so far
ErrorsReportedTo(p) ==
    LET n == [j \in 1..Len(resps[p]) |->
                IF /\ resps[p][j].kind = "http" /\ resps[p][j].status = HTTP_OK
                   /\ "errors" \in DOMAIN resps[p][j].body
                THEN Len(resps[p][j].body.errors) ELSE 0]
        Sum[j \in 0..Len(resps[p])] == IF j = 0 THEN 0 ELSE Sum[j - 1] + n[j]
    IN  Sum[Len(resps[p])]

\* the error entries AWS has reported so far
ErrorsReported == ErrorsReportedTo("a") + ErrorsReportedTo("b")

TransportError == [kind |-> "exception", error |-> [t |-> "TransportError"]]

\* the answers to a DeleteMessageBatch request
BatchResponses(req) ==
    {TransportError}
    \cup {[kind |-> "http", status |-> st[1], reason |-> st[2],
           body |-> [errors |-> <<>>]] : st \in Statuses}
    \cup {[kind |-> "http", status |-> HTTP_OK, reason |-> "OK",
            body |-> [errors |-> BatchErrors(req, E)]] :
                E \in {E \in SUBSET EntryIds(req) :
                          E # {} /\ Cardinality(E) + ErrorsReported <= MaxErrs}}

\* the handles AWS deletes when it answers a batch request with these errors
BatchDeleted(req, response) ==
    IF response.kind = "http" /\ response.status = HTTP_OK
    THEN {UrlDecode(QueryGet(req, PrhKey(e))) :
            e \in EntryIds(req) \ {response.body.errors[j].eid :
                                        j \in 1..Len(response.body.errors)}}
    ELSE {}

\* ----------------------------------------------------------- the calls
\* the requests of call p on the wire
Outstanding(p) == {m \in net : m.proc = p}

\* the request whose answer call p waits for: the last it issued
Awaited(p) == CHOOSE m \in net : m.proc = p /\ m.no = Len(issued[p])

\* what AWS reads in a request: its Action, and its batch entries in the
\* order of their numbers
ReadRequest(req) ==
    LET es == SetToSeq(EntryIds(req))
    IN  [action |-> IF DictHas(req.query, K_Action)
                    THEN UrlDecode(QueryGet(req, K_Action)) ELSE <<>>,
         entries |-> [j \in 1..Len(es) |->
                        [eid |-> es[j],
                         Id |-> UrlDecode(QueryGet(req, PidKey(es[j]))),
                         ReceiptHandle |-> UrlDecode(QueryGet(req, PrhKey(es[j])))]]]

\* the call suspends in AWS.get (aws.py:135-136) with its request on the wire
Issue(p, url, params, ts, netNow) ==
    \E g \in {get(client.aws, url, params, ts)} :
        /\ heap' = [heap EXCEPT ![ParamsRef(p)] = g.params]
        /\ issued' = [issued EXCEPT ![p] = Append(@, ReadRequest(g.request))]
        /\ net' = netNow \cup {[proc |-> p, no |-> Len(issued[p]) + 1, ts |-> ts,
                                 request |-> g.request]}
        /\ pc' = [pc EXCEPT ![p] = "await"]
        /\ ret' = ret

\* the call ends: it returns value, or err leaves it
Finish(p, how, value, netNow) ==
    /\ pc' = [pc EXCEPT ![p] = IF how = "return" THEN "done" ELSE "failed"]
    /\ ret' = [ret EXCEPT ![p] = [kind |-> how, value |-> value]]
    /\ net' = netNow
    /\ UNCHANGED <<heap, issued>>

\* what AWS.get makes of the transport's answer (lines 136-140)
GetOutcome(response) ==
    IF response.kind = "exception" THEN [raised |-> TRUE, error |-> response.error]
    ELSE IF GetRaises(response.status)
    THEN [raised |-> TRUE, error |-> AWSException(response.status, response.reason)]
    ELSE [raised |-> FALSE, body |-> response.body]

\* delete_messages at the head of its loop (line 141) with start = st
DMLoop(p, st, res, ts, netNow) ==
    LET handles == args[p].receipt_handles
    IN  /\ start' = [start EXCEPT ![p] = st]
        /\ result' = [result EXCEPT ![p] = res]
        /\ IF st < Len(handles)
           THEN Issue(p, get_queue_url(client, args[p].queue),
                      DMParams(heap["common"], handles, st, ChunkEnd(st, Len(handles))),
                      ts, netNow)
           ELSE Finish(p, "return", res, netNow)

\* delete_messages from its call to the first request or to its return
DeleteMessagesCall(p) ==
    /\ op[p] = "delete_messages" /\ pc[p] = "ready"
    /\ \E ts \in Timestamps :
          DMLoop(p, 0, [k \in 1..Len(args[p].receipt_handles) |-> None], ts, net)
    /\ UNCHANGED <<client, op, args, resps, deleted>>

\* delete_messages from the answer to a chunk's request to the next request,
\* to its return, or to the exception that ends it
DeleteMessagesResume(p) ==
    /\ op[p] = "delete_messages" /\ pc[p] = "await"
    /\ \E response \in BatchResponses(Awaited(p).request), ts \in Timestamps :
          LET out == GetOutcome(response)
              netNow == net \ {Awaited(p)}
          IN  /\ resps' = [resps EXCEPT ![p] = Append(@, response)]
              /\ deleted' = deleted \cup BatchDeleted(Awaited(p).request, response)
              /\ IF out.raised
                 THEN LET to == OnGetError(start[p], out.error)
                      IN  IF to.pc = "failed"
                          THEN /\ Finish(p, "raise", out.error, netNow)
                               /\ UNCHANGED <<start, result>>
                          ELSE DMLoop(p, to.start, result[p], ts, netNow)
                 ELSE LET w == WriteErrors(result[p], out.body.errors)
                      IN  IF w.raised
                          THEN /\ Finish(p, "raise", w.error, netNow)
                               /\ UNCHANGED <<start, result>>
                          ELSE DMLoop(p, NextStart(start[p]), w.result, ts, netNow)
    /\ UNCHANGED <<client, op, args>>

\* ------------------------------------------------- SQS.delete_message
\* lines 123-127
DeleteMessageParams(common, receipt_handle) ==
    DictUpdate(<< <<K_Action, PyS(S_DeleteMessage)>>,
                  <<K_ReceiptHandle, PyS(receipt_handle)>> >>, common)

\* the answers to a request whose result is one text field
SimpleResponses(body) ==
    {TransportError}
    \cup {[kind |-> "http", status |-> st[1], reason |-> st[2], body |-> body] :
            st \in Statuses}

\* delete_message from its call to its request
DeleteMessageCall(p) ==
    /\ op[p] = "delete_message" /\ pc[p] = "ready"
    /\ \E ts \in Timestamps :
          Issue(p, get_queue_url(client, args[p].queue),
                DeleteMessageParams(heap["common"], args[p].receipt_handle), ts, net)
    /\ UNCHANGED <<client, op, args, start, result, resps, deleted>>

\* delete_message from the answer to its return (line 129) or its exception
DeleteMessageResume(p) ==
    /\ op[p] = "delete_message" /\ pc[p] = "await"
    /\ \E response \in SimpleResponses([RequestId |-> "req-1"]) :
          LET out == GetOutcome(response)
              netNow == net \ {Awaited(p)}
          IN  /\ resps' = [resps EXCEPT ![p] = Append(@, response)]
              /\ deleted' = IF out.raised THEN deleted
                            ELSE deleted \cup
                                 {UrlDecode(QueryGet(Awaited(p).request, K_ReceiptHandle))}
              /\ IF out.raised
                 THEN Finish(p, "raise", out.error, netNow)
                 ELSE Finish(p, "return", out.body.RequestId, netNow)
    /\ UNCHANGED <<client, op, args, start, result>>

\* --------------------------------------------------------- SNS.publish
\* SNS.__init__: the client object and its __common_params
SNS(region, access_key, secret_key) ==
    [client |-> [kind |-> "sns", region |-> region,
                 url |-> [scheme |-> "https",
                          netloc |-> SNS_SVC_NAME \o <<46>> \o region \o S_amazonaws,
                          path |-> Slash],
                 aws |-> AWS(region, SNS_SVC_NAME, access_key, secret_key)],
     common_params |-> << <<K_Version, PyS(SNS_VERSION)>> >>]

RECURSIVE JsonEscape(_)
\* the inside of a JSON string: '"' and '\' get a '\' before them
JsonEscape(s) ==
    IF s = <<>> THEN <<>>
    ELSE (IF s[1] \in {34, 92} THEN <<92, s[1]>> ELSE <<s[1]>>) \o JsonEscape(Tail(s))

\* json.dumps(message) for a message that is a string
json_dumps(message) == PyS(<<34>> \o JsonEscape(message.v) \o <<34>>)

\* a variant: nothing is asserted
MessageStructureAny(ms) == TRUE

\* line 107: message_structure in (None, 'json')
MessageStructureOk(ms) == ms.t = "none" \/ (ms.t = "str" /\ ms.v = S_json)

\* lines 138-145 for the attribute of number index
AttributeParams(params, index, name, attr) ==
    LET prefix == K_AttrPrefix \o IntToStr(index)
        p1 == DictSet(params, prefix \o K_NameSuffix, PyS(name))
        p2 == IF DictHas(attr, K_DataType)
              THEN DictSet(p1, prefix \o K_DataTypeSuffix, DictGet(attr, K_DataType))
              ELSE p1
        p3 == IF DictHas(attr, K_StringValue)
              THEN DictSet(p2, prefix \o K_StringValueSuffix, DictGet(attr, K_StringValue))
              ELSE p2
    IN  IF DictHas(attr, K_BinaryValue)
        THEN DictSet(p3, prefix \o K_BinaryValueSuffix, DictGet(attr, K_BinaryValue))
        ELSE p3

RECURSIVE AttributesFrom(_, _, _)
AttributesFrom(params, attributes, index) ==
    IF index > Len(attributes) THEN params
    ELSE AttributesFrom(
            AttributeParams(params, index, attributes[index][1], attributes[index][2]),
            attributes, index + 1)

\* sns.attributes_to_params
attributes_to_params(attributes) == AttributesFrom(<<>>, attributes, 1)

\* lines 108-123: the parameters of the Publish request
PublishParams(common, a) ==
    LET message == IF a.message_structure.t = "str" /\ a.message_structure.v = S_json
                   THEN json_dumps(a.message) ELSE a.message
        p0 == << <<K_Action, PyS(S_Publish)>>, <<K_Message, message>> >>
        p1 == IF Truthy(a.subject) THEN DictSet(p0, K_Subject, a.subject) ELSE p0
        p2 == IF Truthy(a.message_structure)
              THEN DictSet(p1, K_MessageStructure, a.message_structure) ELSE p1
        p3 == IF Truthy(a.topic_arn) THEN DictSet(p2, K_TopicArn, a.topic_arn) ELSE p2
        p4 == IF Truthy(a.target_arn) THEN DictSet(p3, K_TargetArn, a.target_arn) ELSE p3
    IN  DictUpdate(DictUpdate(p4, common), attributes_to_params(a.attributes))

\* publish from its call to its request, or to the failed assertion
PublishCall(p) ==
    /\ op[p] = "publish" /\ pc[p] = "ready"
    /\ IF MessageStructureOk(args[p].message_structure)
       THEN \E ts \in Timestamps :
               Issue(p, client.url, PublishParams(heap["common"], args[p]), ts, net)
       ELSE Finish(p, "raise", [t |-> "AssertionError"], net)
    /\ UNCHANGED <<client, op, args, start, result, resps, deleted>>

\* publish from the answer to its return (line 125) or its exception
PublishResume(p) ==
    /\ op[p] = "publish" /\ pc[p] = "await"
    /\ \E response \in SimpleResponses([MessageId |-> "msg-1"]) :
          LET out == GetOutcome(response)
              netNow == net \ {Awaited(p)}
          IN  /\ resps' = [resps EXCEPT ![p] = Append(@, response)]
              /\ IF out.raised
                 THEN Finish(p, "raise", out.error, netNow)
                 ELSE Finish(p, "return", out.body.MessageId, netNow)
    /\ UNCHANGED <<client, op, args, start, result, deleted>>

\* ------------------------------------------- AWS.get, called directly
\* AWS.get from its call to its request
GetCall(p) ==
    /\ op[p] = "get" /\ pc[p] = "ready"
    /\ \E ts \in Timestamps : Issue(p, args[p].url, args[p].params, ts, net)
    /\ UNCHANGED <<client, op, args, start, result, resps, deleted>>

\* AWS.get from the answer to its return (line 140) or its exception
GetResume(p) ==
    /\ op[p] = "get" /\ pc[p] = "await"
    /\ \E response \in SimpleResponses([Document |-> "doc-1"]) :
          LET out == GetOutcome(response)
              netNow == net \ {Awaited(p)}
          IN  /\ resps' = [resps EXCEPT ![p] = Append(@, response)]
              /\ IF out.raised
                 THEN Finish(p, "raise", out.error, netNow)
                 ELSE Finish(p, "return", out.body, netNow)
    /\ UNCHANGED <<client, op, args, start, result, deleted>>

\* ------------------------------------------------------ initial states
NoCall == [t |-> "none"]

DMArgs == {[queue |-> S_queue, receipt_handles |-> HandleList(n)] : n \in 0..MaxN}

DeleteMessageArgs == {[queue |-> S_queue, receipt_handle |-> Handle(k)] : k \in 1..2}

S_hi == <<104, 105>>             \* 'hi'
S_quoted == <<97, 34, 98>>       \* 'a"b'
S_xml == <<120, 109, 108>>       \* 'xml'
S_topic == <<116, 58, 49>>       \* 't:1'
S_endpoint == <<101, 47, 50>>    \* 'e/2'
S_subj == <<115, 32, 106>>       \* 's j'
S_name == <<110, 49>>            \* 'n1'
S_String == <<83, 116, 114, 105, 110, 103>>   \* 'String'
S_Bob == <<66, 111, 98>>         \* 'Bob'
S_Binary == <<66, 105, 110, 97, 114, 121>>    \* 'Binary'
S_b64 == <<89, 81, 61, 61>>      \* 'YQ=='

AttributeDicts ==
    {<<>>,
     << <<S_name, << <<K_DataType, PyS(S_String)>>, <<K_StringValue, PyS(S_Bob)>> >> >> >>,
     << <<S_name, << <<K_BinaryValue, PyS(S_b64)>>, <<K_DataType, PyS(S_Binary)>> >> >>,
        <<S_Bob, << <<K_StringValue, PyS(S_hi)>> >> >> >>}

PublishArgs ==
    {[topic_arn |-> t, message |-> PyS(m), subject |-> s, target_arn |-> g,
      message_structure |-> ms, attributes |-> at] :
        t \in {None, PyS(S_topic)}, m \in {S_hi, S_quoted},
        s \in {None, PyS(<<>>), PyS(S_subj)}, g \in {None, PyS(S_endpoint)},
        ms \in {None, PyS(S_json), PyS(S_xml), PyS(<<>>)}, at \in AttributeDicts}

\* the items a caller of AWS.get picks its parameters from
ParamPool ==
    << <<K_Action, PyS(<<97, 32, 98>>)>>,        \* 'Action': 'a b'
       <<<<65, 99, 116>>, PyInt(7)>>,            \* 'Act': 7
       <<<<88, 45, 65, 109, 121>>, PyS(Slash)>>, \* 'X-Amy': '/'
       <<<<90, 101, 100>>, PyS(S_hi)>> >>        \* 'Zed': 'hi'

\* the dicts over items of the pool, in every insertion order
ParamDicts ==
    LET n == Len(ParamPool)
        orders == UNION {{f \in [1..k -> 1..n] : \A i, j \in 1..k : f[i] = f[j] => i = j} :
                            k \in 0..n}
    IN  {[i \in DOMAIN f |-> ParamPool[f[i]]] : f \in orders}

GetArgs == {[url |-> get_queue_url([region |-> S_region, account_id |-> S_account_id],
                                   S_queue),
             params |-> d] : d \in ParamDicts}

InitCalls ==
    /\ pc = [p \in Procs |-> IF op[p] = "none" THEN "idle" ELSE "ready"]
    /\ start = [p \in Procs |-> 0]
    /\ result = [p \in Procs |-> <<>>]
    /\ issued = [p \in Procs |-> <<>>]
    /\ net = {}
    /\ resps = [p \in Procs |-> <<>>]
    /\ ret = [p \in Procs |-> [kind |-> "none"]]
    /\ deleted = {}

InitHeap(common_params) ==
    heap = [r \in Procs \cup {"common"} |-> IF r = "common" THEN common_params ELSE <<>>]

OneCall(o, a) ==
    /\ op = [p \in Procs |-> IF p = "a" THEN o ELSE "none"]
    /\ args = [p \in Procs |-> IF p = "a" THEN a ELSE NoCall]

InitSQS ==
    LET c == SQS(S_region, S_account_id, S_access_key, S_secret_key)
    IN  client = c.client /\ InitHeap(c.common_params)

InitSNS ==
    LET c == SNS(S_region, S_access_key, S_secret_key)
    IN  client = c.client /\ InitHeap(c.common_params)

InitAWS ==
    /\ client = [kind |-> "aws",
                 aws |-> AWS(S_region, SQS_SVC_NAME, S_access_key, S_secret_key)]
    /\ InitHeap(<<>>)

\* one call on a fresh client
Init ==
    /\ \/ InitSQS /\ \E a \in DMArgs : OneCall("delete_messages", a)
       \/ InitSQS /\ \E a \in DeleteMessageArgs : OneCall("delete_message", a)
       \/ InitSNS /\ \E a \in PublishArgs : OneCall("publish", a)
       \/ InitAWS /\ \E a \in GetArgs : OneCall("get", a)
    /\ InitCalls

Next ==
    \E p \in Procs :
        \/ DeleteMessagesCall(p)
        \/ DeleteMessagesResume(p)
        \/ DeleteMessageCall(p)
        \/ DeleteMessageResume(p)
        \/ PublishCall(p)
        \/ PublishResume(p)
        \/ GetCall(p)
        \/ GetResume(p)

Spec == Init /\ [][Next]_vars

\* the calls a concurrent run picks from
ConcArgs ==
    << <<"delete_message", [queue |-> S_queue, receipt_handle |-> Handle(1)]>>,
       <<"delete_messages", [queue |-> S_queue, receipt_handles |-> HandleList(1)]>>,
       <<"delete_messages",
         [queue |-> S_queue, receipt_handles |-> HandleList(ChunkSize + 1)]>> >>

\* two calls on one SQS client, running concurrently; the two calls are
\* interchangeable, so call "a" is the one picked first in ConcArgs
InitConc ==
    /\ InitSQS
    /\ \E i, j \in 1..Len(ConcArgs) :
          /\ i <= j
          /\ op = [p \in Procs |-> IF p = "a" THEN ConcArgs[i][1] ELSE ConcArgs[j][1]]
          /\ args = [p \in Procs |-> IF p = "a" THEN ConcArgs[i][2] ELSE ConcArgs[j][2]]
    /\ InitCalls

NextConc ==
    \E p \in Procs :
        \/ DeleteMessagesCall(p)
        \/ DeleteMessagesResume(p)
        \/ DeleteMessageCall(p)
        \/ DeleteMessageResume(p)

SpecConc == InitConc /\ [][NextConc]_vars

\* ------------------------------------------------------------- claims
DM(p) == op[p] = "delete_messages"

NumHandles(p) == Len(args[p].receipt_handles)

IsOk(response) == response.kind = "http" /\ response.status = 200

IsError(v) == v.t = "AWSException"

\* the error entries in the answers call p has got, each with the number of
\* its answer
ErrorsGot(p) ==
    UNION {{<<j, resps[p][j].body.errors[i]>> : i \in 1..Len(resps[p][j].body.errors)} :
                j \in {j \in 1..Len(resps[p]) : IsOk(resps[p][j])}}

ErrorOf(err) == AWSException(StrToInt(err.Code), err.Message)

Chunks(n) == (n + 9) \div 10

\* the Id AWS read for the handle at index k (from 0) of call p's list
IdSentFor(p, k) == issued[p][(k \div 10) + 1].entries[(k % 10) + 1].Id

\* C1: when delete_messages returns, its result has one slot per receipt
\* handle, and slot k holds the AWSError of an error entry whose Id is the Id
\* sent for receipt handle k if some answer held one, and None otherwise
C1_ResultAligned ==
    \A p \in Procs : DM(p) /\ pc[p] = "done" =>
        /\ ret[p].kind = "return"
        /\ Len(ret[p].value) = NumHandles(p)
        /\ \A k \in 0..NumHandles(p) - 1 :
              LET hits == {x \in ErrorsGot(p) : x[2].Id = IdSentFor(p, k)}
              IN  IF hits = {} THEN ret[p].value[k + 1] = None
                  ELSE \E x \in hits : ret[p].value[k + 1] = ErrorOf(x[2])

\* a call of three chunks has returned with an error in the slot of index 11,
\* whose receipt handle is also the one of index 4, a slot left None
C1_Witness ==
    \E p \in Procs :
        /\ DM(p) /\ pc[p] = "done" /\ NumHandles(p) >= 21
        /\ IsError(ret[p].value[12]) /\ ret[p].value[5] = None
        /\ args[p].receipt_handles[12] = args[p].receipt_handles[5]

\* C2: the j-th request of delete_messages carries exactly the handles at
\* indices 10*j .. min(10*j+9, N-1), in input order, between 1 and 10 of them,
\* and a call that returns has issued ceil(N/10) requests
C2_ChunkRequests ==
    \A p \in Procs : DM(p) =>
        /\ \A j \in 1..Len(issued[p]) :
              LET s == 10 * (j - 1)
                  e == IF s + 10 > NumHandles(p) THEN NumHandles(p) ELSE s + 10
                  r == issued[p][j]
              IN  /\ r.action = S_DeleteMessageBatch
                  /\ Len(r.entries) = e - s
                  /\ Len(r.entries) \in 1..10
                  /\ \A i \in 1..Len(r.entries) :
                        /\ r.entries[i].eid = i
                        /\ r.entries[i].ReceiptHandle = args[p].receipt_handles[s + i]
        /\ pc[p] = "done" => Len(issued[p]) = Chunks(NumHandles(p))

\* a call with 25 handles has returned after three requests, the last of five
C2_Witness ==
    \E p \in Procs :
        /\ DM(p) /\ pc[p] = "done" /\ NumHandles(p) = 25
        /\ Len(issued[p]) = 3 /\ Len(issued[p][3].entries) = 5

\* C3: an error AWS reports for entry number e (from 1) of the chunk that
\* starts at index s comes with the Id s + e - 1 and is written to the slot of
\* index s + e - 1; the slots no error was reported for hold None
C3_ErrorSlot ==
    \A p \in Procs : DM(p) =>
        /\ \A x \in ErrorsGot(p) :
              LET k == 10 * (x[1] - 1) + x[2].eid - 1
              IN  /\ StrToInt(x[2].Id) = k
                  /\ result[p][k + 1] = ErrorOf(x[2])
        /\ \A k \in 0..Len(result[p]) - 1 :
              (\A x \in ErrorsGot(p) : 10 * (x[1] - 1) + x[2].eid - 1 # k)
                  => result[p][k + 1] = None

\* N = 25, an error for entry 2 of the second chunk: the slot of index 11 holds
\* the AWSError and the 24 other slots None
C3_Witness ==
    \E p \in Procs :
        /\ DM(p) /\ pc[p] = "done" /\ NumHandles(p) = 25
        /\ \E x \in ErrorsGot(p) : x[1] = 2 /\ x[2].eid = 2
        /\ IsError(ret[p].value[12])
        /\ \A k \in 1..25 : k # 12 => ret[p].value[k] = None

\* C4: an error entry in a 200 answer never ends delete_messages in an
\* exception: the next chunk is requested, the call returns once every chunk
\* is answered, and only slots of items an error was reported for are changed
C4_ItemErrorIsolated ==
    \A p \in Procs : DM(p) =>
        /\ pc[p] = "failed" => ~IsOk(resps[p][Len(resps[p])])
        /\ \A j \in 1..Len(resps[p]) :
              IsOk(resps[p][j]) =>
                 IF j < Chunks(NumHandles(p))
                 THEN Len(issued[p]) >= j + 1
                 ELSE pc[p] = "done" /\ ret[p].kind = "return"
        /\ \A k \in 0..Len(result[p]) - 1 :
              result[p][k + 1] # None =>
                 /\ k \div 10 < Len(issued[p])
                 /\ \E x \in ErrorsGot(p) : x[2].Id = IdSentFor(p, k)

\* the first answer of a call of two chunks or more held an error entry; the
\* second chunk was requested and the call returned with one slot changed
C4_Witness ==
    \E p \in Procs :
        /\ DM(p) /\ pc[p] = "done" /\ ret[p].kind = "return"
        /\ Len(issued[p]) >= 2
        /\ IsOk(resps[p][1]) /\ Len(resps[p][1].body.errors) = 1
        /\ Cardinality({k \in 1..Len(ret[p].value) : ret[p].value[k] # None}) = 1

\* C5 as stated: AWS.get fails with AWSError{status, reason} exactly when the
\* status is not a 2xx one, and returns the document for every 2xx status
C5_Non2xxRaises ==
    \A p \in Procs : op[p] = "get" /\ Len(resps[p]) = 1 /\ resps[p][1].kind = "http" =>
        IF resps[p][1].status \in 200..299
        THEN ret[p] = [kind |-> "return", value |-> resps[p][1].body]
        ELSE ret[p] = [kind |-> "raise",
                       value |-> AWSException(resps[p][1].status, resps[p][1].reason)]

\* C5: AWS.get fails with AWSError{status, reason}, both as the transport gave
\* them, exactly when the status is not 200, and returns the document for 200;
\* an exception of the transport is no AWSError
C5_Not200Raises ==
    \A p \in Procs : op[p] = "get" /\ Len(resps[p]) = 1 =>
        LET r == resps[p][1]
        IN  IF r.kind = "http" /\ r.status = 200
            THEN ret[p] = [kind |-> "return", value |-> r.body]
            ELSE IF r.kind = "http"
            THEN ret[p] = [kind |-> "raise", value |-> AWSException(r.status, r.reason)]
            ELSE ret[p].kind = "raise" /\ ~IsError(ret[p].value)

\* AWS.get was answered 204 No Content and raised AWSError{204, "No Content"}
C5_Witness ==
    \E p \in Procs :
        /\ op[p] = "get" /\ Len(resps[p]) = 1
        /\ resps[p][1].kind = "http" /\ resps[p][1].status = 204
        /\ ret[p] = [kind |-> "raise", value |-> AWSException(204, "No Content")]

InvalidStructure(p) ==
    /\ op[p] = "publish"
    /\ args[p].message_structure # None
    /\ args[p].message_structure # PyS(S_json)

\* C6: publish with a message_structure other than None and 'json' issues no
\* request and returns no message id: it ends in the failed assertion
C6_PublishFailsFast ==
    \A p \in Procs : InvalidStructure(p) =>
        /\ issued[p] = <<>> /\ Outstanding(p) = {} /\ resps[p] = <<>>
        /\ pc[p] \in {"ready", "failed"}
        /\ ret[p].kind # "return"

\* publish with message_structure 'xml' has failed, nothing sent
C6_Witness ==
    \E p \in Procs :
        /\ InvalidStructure(p) /\ args[p].message_structure = PyS(S_xml)
        /\ pc[p] = "failed" /\ ret[p].kind = "raise" /\ issued[p] = <<>>

\* the items of a dict as the query string writes them
EncodedItems(d) == {<<d[i][1], url_encode(PyStr(d[i][2]))>> : i \in 1..Len(d)}

SigV4Keys == {K_XAmzAlgorithm, K_XAmzCredential, K_XAmzDate, K_XAmzSignedHeaders}

\* C7: the query string of every request lists its parameters in ascending
\* order of their keys, each key once, and X-Amz-Signature last; for AWS.get
\* called with a dict, these are the dict's items and the four SigV4 ones, and
\* the same dict filled in any other order gives the same request
C7_CanonicalOrder ==
    \A m \in net :
        LET q == m.request.query
            n == Len(q)
        IN  /\ n >= 5
            /\ q[n][1] = K_XAmzSignature
            /\ \A i \in 1..n - 2 : StrLess(q[i][1], q[i + 1][1])
            /\ SigV4Keys \subseteq {q[i][1] : i \in 1..n - 1}
            /\ op[m.proc] = "get" =>
                 /\ {q[i] : i \in 1..n - 1} \ {x \in {q[i] : i \in 1..n - 1} : x[1] \in SigV4Keys}
                        = EncodedItems(args[m.proc].params)
                 /\ n = Len(args[m.proc].params) + 5
                 /\ \A d \in ParamDicts :
                       EncodedItems(d) = EncodedItems(args[m.proc].params)
                          => get(client.aws, args[m.proc].url, d, m.ts).request = m.request

\* AWS.get was called with a dict filled in descending order of its keys
C7_Witness ==
    \E m \in net :
        LET d == args[m.proc].params
        IN  /\ op[m.proc] = "get"
            /\ Len(d) = 4
            /\ \A i \in 1..3 : StrLess(d[i + 1][1], d[i][1])
            /\ m.request.query[1][1] = d[4][1]

\* C9: the requests of one delete_messages call go out one at a time and in
\* the order of the chunks: at most one is on the wire, it is the last one
\* issued, every earlier one is answered, and the error entries of every
\* answer are in the result
C9_Sequential ==
    \A p \in Procs : DM(p) =>
        /\ Cardinality(Outstanding(p)) <= 1
        /\ Len(issued[p]) - Len(resps[p]) = Cardinality(Outstanding(p))
        /\ \A m \in Outstanding(p) : m.no = Len(issued[p]) /\ pc[p] = "await"
        /\ \A j \in 1..Len(issued[p]) :
              issued[p][j].entries[1].ReceiptHandle = args[p].receipt_handles[10 * (j - 1) + 1]
        /\ \A x \in ErrorsGot(p) : result[p][StrToInt(x[2].Id) + 1] = ErrorOf(x[2])

\* the third request is on the wire, two answers are in, and the error entry
\* of the second answer is in the result
C9_Witness ==
    \E p \in Procs :
        /\ DM(p) /\ pc[p] = "await" /\ Len(issued[p]) = 3 /\ Len(resps[p]) = 2
        /\ \E x \in ErrorsGot(p) : x[1] = 2 /\ IsError(result[p][StrToInt(x[2].Id) + 1])

IsFailure(response) == response.kind = "exception" \/ response.status # 200

\* C10: when AWS.get fails for a chunk, delete_messages ends with that error
\* and no result, no request follows the failed one, and what the earlier
\* chunks deleted stays deleted
C10_NotTransactional ==
    \A p \in Procs : DM(p) =>
        \A j \in 1..Len(resps[p]) : IsFailure(resps[p][j]) =>
            /\ j = Len(resps[p]) /\ Len(issued[p]) = j /\ Outstanding(p) = {}
            /\ pc[p] = "failed"
            /\ ret[p].kind = "raise"
            /\ ret[p].value = IF resps[p][j].kind = "exception" THEN resps[p][j].error
                              ELSE AWSException(resps[p][j].status, resps[p][j].reason)
            /\ \A c \in 1..j - 1 : \A i \in 1..Len(issued[p][c].entries) :
                  (\A x \in ErrorsGot(p) : x[1] = c => x[2].eid # i)
                     => issued[p][c].entries[i].ReceiptHandle \in deleted

\* the second of three chunks has failed: the call has failed after two
\* requests, and the first handle is deleted
C10_Witness ==
    \E p \in Procs :
        /\ DM(p) /\ pc[p] = "failed" /\ NumHandles(p) >= 21
        /\ Len(issued[p]) = 2 /\ IsFailure(resps[p][2])
        /\ args[p].receipt_handles[1] \in deleted

\* the SQS client as its constructor leaves it
FreshSQS == SQS(S_region, S_account_id, S_access_key, S_secret_key)

\* the request numbered no that call p sends at ts when it runs alone on a
\* client nothing else has touched
SoloRequest(p, no, ts) ==
    LET c == FreshSQS
        url == get_queue_url(c.client, args[p].queue)
        handles == args[p].receipt_handles
        st == 10 * (no - 1)
    IN  get(c.client.aws, url,
            IF DM(p)
            THEN DMParams(c.common_params, handles, st, ChunkEnd(st, Len(handles)))
            ELSE DeleteMessageParams(c.common_params, args[p].receipt_handle),
            ts).request

\* C8: two calls running concurrently on one SQS client leave the client and
\* its common parameters as constructed, each sends the requests it would
\* send alone, and each result holds the errors of its own answers only
C8_NoInterference ==
    /\ client = FreshSQS.client
    /\ heap["common"] = FreshSQS.common_params
    /\ \A m \in net : m.request = SoloRequest(m.proc, m.no, m.ts)
    /\ \A p \in Procs : DM(p) =>
          \A k \in 0..Len(result[p]) - 1 :
             LET hits == {x \in ErrorsGot(p) : StrToInt(x[2].Id) = k}
             IN  IF hits = {} THEN result[p][k + 1] = None
                 ELSE \E x \in hits : result[p][k + 1] = ErrorOf(x[2])

\* two delete_messages calls of two chunks each both wait for the answer to
\* their second request, one of them with an error in its result
C8_Witness ==
    /\ \A p \in Procs :
          DM(p) /\ pc[p] = "await" /\ Len(issued[p]) = 2 /\ Outstanding(p) # {}
    /\ Cardinality(net) = 2
    /\ \E p \in Procs : \E k \in 1..Len(result[p]) : IsError(result[p][k])
    /\ \E p \in Procs : \A k \in 1..Len(result[p]) : result[p][k] = None

====
